---- MODULE Spec2Model ----
(***************************************************************************)
(* Model of the t1d_data collation pipeline: the timestamp normalizer      *)
(* (parsers/utils.py, utils.py), the source parsers (parsers/parse_*.py)   *)
(* and Dataset._colate / Dataset.save_to_disk (dataset.py).                *)
(*                                                                         *)
(* Floats are modelled as exact rationals <<numerator, denominator>> in    *)
(* lowest terms; None is <<"None">> and NaN is <<0, 0>>.  A datetime is a record *)
(* of its fields; a dict is a function whose DOMAIN is its key set.        *)
(***************************************************************************)
EXTENDS Integers, Sequences, FiniteSets, TLC

VARIABLES
    pc,             \* position in the program
    arg,            \* normalizer: the timestamp handed to round
    out,            \* normalizer: what round returned
    workouts,       \* AppleHealthParser: list of (start, end, type)
    has_food,       \* Dataset.food_parser is not None
    hr_entries,     \* AppleHealthParser.hr_entries
    food_entries,   \* FoodParser.food_entries
    bg_readings,    \* PumpParser.read_bg_data: readings
    bolus_readings, \* PumpParser.read_bolus_data: readings
    nread,          \* number of raw events read by the current parser loop
    pump_data,      \* _colate: pump_data (its records are shared with self.data)
    times,          \* Dataset.times
    time_to_idx,    \* Dataset.time_to_idx
    data,           \* Dataset.data
    df,             \* _colate: the DataFrame built at line 82, before interpolation
    records         \* save_to_disk: records

vars == <<pc, arg, out, workouts, has_food, hr_entries, food_entries, bg_readings,
          bolus_readings, nread, pump_data, times, time_to_idx, data, df, records>>

-----------------------------------------------------------------------------
(* Values *)

None == <<"None">>

NaN == <<0, 0>>

Missing(v) == v = None \/ v = NaN

Abs(n) == IF n < 0 THEN -n ELSE n

RECURSIVE GCD(_, _)
GCD(a, b) == IF b = 0 THEN a ELSE GCD(b, a % b)

\* the rational n/d in lowest terms, d > 0
Rat(n, d) ==
    LET g == GCD(Abs(n), d)
    IN  <<n \div g, d \div g>>

Num(n) == <<n, 1>>

RatAdd(x, y) ==
    LET l == (x[2] \div GCD(x[2], y[2])) * y[2]
    IN  Rat(x[1] * (l \div x[2]) + y[1] * (l \div y[2]), l)

RatSub(x, y) == RatAdd(x, <<-y[1], y[2]>>)

\* x * (a / b) for integers a, b with b > 0
RatScale(x, a, b) ==
    LET g == GCD(Abs(a), b)
        h == GCD(Abs(x[1]), b \div g)
    IN  Rat((x[1] \div h) * (a \div g), x[2] * ((b \div g) \div h))

\* x > 0 as Python evaluates it on a float (False for NaN)
Positive(x) == x[1] > 0

-----------------------------------------------------------------------------
(* datetime *)

DT(d, h, m, s, us, tz) ==
    [day |-> d, hour |-> h, minute |-> m, second |-> s, microsecond |-> us, tzinfo |-> tz]

\* the naive datetime m minutes after midnight of day 1
At(m) == DT(1 + (m \div 1440), (m % 1440) \div 60, m % 60, 0, 0, "naive")

\* seconds since midnight of day 0 (sub-seconds apart)
Stamp(dt) == ((dt.day * 24 + dt.hour) * 60 + dt.minute) * 60 + dt.second

\* (a - b).total_seconds(), for datetimes whose microsecond fields agree
TotalSeconds(a, b) == Stamp(a) - Stamp(b)

\* a < b on naive datetimes
DtLess(a, b) ==
    \/ Stamp(a) < Stamp(b)
    \/ Stamp(a) = Stamp(b) /\ a.microsecond < b.microsecond

\* datetime.replace(tzinfo=None)
StripTz(dt) == [dt EXCEPT !.tzinfo = "naive"]

\* datetime.isoformat(): 'YYYY-MM-DDTHH:MM:SS[.ffffff][+HH:MM]'; the fraction
\* and the offset are printed only when present
isoformat(dt) ==
    [date |-> dt.day,
     time |-> <<dt.hour, dt.minute, dt.second>>,
     frac |-> IF dt.microsecond # 0 THEN <<dt.microsecond>> ELSE <<>>,
     offset |-> IF dt.tzinfo # "naive" THEN <<dt.tzinfo>> ELSE <<>>]

-----------------------------------------------------------------------------
(* Timestamp normalizer *)

round_keeps_second(dt) ==
    [dt EXCEPT !.minute = dt.minute - (dt.minute % 5), !.microsecond = 0]

round_up(dt) ==
    [dt EXCEPT !.minute = (dt.minute + 4) - ((dt.minute + 4) % 5),
               !.second = 0, !.microsecond = 0]

\* the boundary strictly below dt: an aligned minute moves one slot back
round_exclusive(dt) ==
    LET new_minute == IF dt.minute = 0 THEN 0 ELSE (dt.minute - 1) - ((dt.minute - 1) % 5)
    IN  [dt EXCEPT !.minute = new_minute, !.second = 0, !.microsecond = 0]

\* parsers/utils.py round
round(dt) ==
    LET new_minute == dt.minute - (dt.minute % 5)
    IN  [dt EXCEPT !.minute = new_minute, !.second = 0, !.microsecond = 0]

\* utils.py round (the revision the top-level parse_csv.py / parse_xml.py use)
round_legacy(dt) ==
    LET new_minute == dt.minute - (dt.minute % 5)
    IN  isoformat([dt EXCEPT !.minute = new_minute, !.second = 0])

-----------------------------------------------------------------------------
(* dict *)

EmptyDict == [k \in {} |-> None]

\* d.get(k, default)
Get(d, k, default) == IF k \in DOMAIN d THEN d[k] ELSE default

\* d[k] = v
Put(d, k, v) == [x \in DOMAIN d \cup {k} |-> IF x = k THEN v ELSE d[x]]

\* d.update(e)
Update(d, e) == [x \in DOMAIN d \cup DOMAIN e |-> IF x \in DOMAIN e THEN e[x] ELSE d[x]]

\* d.values()
Values(d) == {d[k] : k \in DOMAIN d}

\* Op applied to the value of v, which is computed once
With(v, Op(_)) == CHOOSE r \in {Op(y) : y \in {v}} : TRUE

\* sorted(S) for a set of naive datetimes: each element at the position given by
\* the number of elements before it
sorted(S) ==
    With({<<Cardinality({y \in S : DtLess(y, x)}), x>> : x \in S},
         LAMBDA ranked :
             [i \in 1..Cardinality(S) |-> (CHOOSE r \in ranked : r[1] = i - 1)[2]]
                 \o <<>>)

Range(s) == {s[i] : i \in 1..Len(s)}

-----------------------------------------------------------------------------
(* Bounds and raw inputs of the parsers *)

\* raw events one parser loop reads
MaxEvents == 2

T1 == DT(1, 9, 0, 0, 0, "+00:00")

T2 == DT(1, 9, 3, 30, 250000, "+00:00")

T3 == DT(1, 9, 5, 10, 0, "+00:00")

\* Tidepool entries of type 'cbg' in mg/dL
CbgEntries ==
    {[time |-> T1, value |-> 100], [time |-> T2, value |-> 140],
     [time |-> T3, value |-> 120]}

\* Tidepool entries of type 'bolus'
BolusEntries ==
    {[time |-> T1, normal |-> 5, carbInput |-> 30, bgInput |-> 110, correction |-> 0],
     [time |-> T2, normal |-> 2, carbInput |-> 0, bgInput |-> 0, correction |-> 1]}

\* the lists of Tidepool entries of type 'basal' a file holds (rate in U/h as a rational)
BasalFiles ==
    {<<>>, <<[time |-> T3, duration |-> 10, rate |-> <<6, 10>>]>>}

\* Apple Health heart-rate records
HrRecords ==
    {[startDate |-> T1, value |-> 65], [startDate |-> T2, value |-> 80],
     [startDate |-> T3, value |-> 70]}

\* the lists of workouts an export holds
WorkoutFiles ==
    {<<>>, <<<<StripTz(T1), StripTz(T2), "HKWorkoutActivityTypeWalking">>>>}

\* nutrition rows whose Time column is filled in (minute resolution, naive)
FoodRows ==
    {[time |-> DT(1, 9, 2, 0, 0, "naive"), calories |-> Num(200), carbs |-> NaN,
      protein |-> Num(10), fat |-> NaN, fiber |-> NaN, saturated_fat |-> NaN,
      sodium |-> NaN],
     [time |-> DT(1, 9, 5, 0, 0, "naive"), calories |-> Num(300), carbs |-> Num(40),
      protein |-> NaN, fat |-> Num(8), fiber |-> Num(2), saturated_fat |-> Num(1),
      sodium |-> Num(150)]}

-----------------------------------------------------------------------------
(* parsers/parse_xml.py *)

\* the body of the loop of AppleHealthParser._parse_data for one heart-rate record
ParseHrRecord(entries, wk, rec) ==
    LET start_dt == round(StripTz(rec.startDate))
        value == Num(rec.value)
        e0 == IF start_dt \notin DOMAIN entries
              THEN [hr |-> value, running |-> FALSE, walking |-> FALSE,
                    nordic_skiing |-> FALSE]
              ELSE [entries[start_dt] EXCEPT !.hr = value]
        within(type) ==
            \E i \in 1..Len(wk) :
                /\ wk[i][3] = type
                /\ ~DtLess(start_dt, wk[i][1])
                /\ ~DtLess(wk[i][2], start_dt)
        e1 == [e0 EXCEPT
                 !.running = @ \/ within("HKWorkoutActivityTypeRunning"),
                 !.walking = @ \/ within("HKWorkoutActivityTypeWalking"),
                 !.nordic_skiing = @ \/ within("HKWorkoutActivityTypeNordicSkiing")]
    IN  Put(entries, start_dt, e1)

-----------------------------------------------------------------------------
(* parsers/parse_food.py *)

NutritionFields ==
    {"calories", "carbs", "protein", "fat", "fiber", "saturated_fat", "sodium"}

\* float(row[c]) if not pd.isna(row[c]) else 0.0
RowValue(v) == IF v = NaN THEN Num(0) ELSE v

\* the body of the loop of FoodParser._parse_data for one row
ParseFoodRow(entries, row) ==
    LET key == round(row.time)
        entry == IF key \notin DOMAIN entries
                 THEN [f \in NutritionFields |-> Num(0)]
                 ELSE entries[key]
    IN  Put(entries, key, [f \in NutritionFields |-> RatAdd(entry[f], RowValue(row[f]))])

-----------------------------------------------------------------------------
(* parsers/parse_pump.py *)

\* PumpParser._parse_timestamp
ParseTimestamp(t) == StripTz(t)

\* the body of the loop of read_bg_data for one cbg entry
ReadBgEntry(readings, entry) ==
    Put(readings, round(ParseTimestamp(entry.time)), Num(entry.value))

\* the body of the first loop of read_bolus_data for one bolus entry
ReadBolusEntry(readings, entry) ==
    Put(readings, round(ParseTimestamp(entry.time)),
        [bolus |-> Num(entry.normal), bg |-> Num(entry.bgInput),
         carbs |-> Num(entry.carbInput), food_bolus |-> Num(entry.normal),
         corr_bolus |-> Num(entry.correction)])

\* datetime + timedelta(minutes = m), for a naive datetime
PlusMinutes(dt, m) ==
    LET t == (dt.day * 24 + dt.hour) * 60 + dt.minute + m
    IN  [dt EXCEPT !.day = t \div 1440, !.hour = (t % 1440) \div 60, !.minute = t % 60]

\* Python's round(n / 5.0) for an integer n >= 0 (n / 5 is never a tie)
PyRoundFifth(n) == IF n % 5 >= 3 THEN (n \div 5) + 1 ELSE n \div 5

\* PumpParser._get_basal_rates: the entries in file order, a later one overwrites
RECURSIVE GetBasalRates(_, _)
GetBasalRates(rates, entries) ==
    IF entries = <<>> THEN rates
    ELSE LET entry == Head(entries)
             start_dt == ParseTimestamp(entry.time)
             n == PyRoundFifth(entry.duration)
             rate == RatScale(entry.rate, 1, 12)
             keys == {round(PlusMinutes(start_dt, 5 * i)) : i \in 0..(n - 1)}
         IN  GetBasalRates([k \in DOMAIN rates \cup keys |->
                               IF k \in keys THEN rate ELSE rates[k]],
                           Tail(entries))

\* the second loop of read_bolus_data: the basal rates added to the readings
AddBasalRates(readings, rates) ==
    [k \in DOMAIN readings \cup DOMAIN rates |->
        IF k \notin DOMAIN rates THEN readings[k]
        ELSE IF k \in DOMAIN readings
        THEN [readings[k] EXCEPT !.bolus = RatAdd(@, rates[k])]
        ELSE [bolus |-> rates[k], bg |-> None, carbs |-> Num(0),
              food_bolus |-> Num(0), corr_bolus |-> Num(0)]]

\* PumpParser.get_all_data
PumpGetAllData(bg_data, bolus_data) ==
    [key \in DOMAIN bg_data \cup DOMAIN bolus_data |->
        LET elem == IF key \in DOMAIN bolus_data THEN bolus_data[key] ELSE EmptyDict
        IN  Put(elem, "bg", IF key \in DOMAIN bg_data THEN bg_data[key] ELSE None)]

-----------------------------------------------------------------------------
(* dataset.py: Dataset._colate *)

\* minutes of the linear ramp of iob_contribution
RampMinutes == 15

\* minutes of the effect of a bolus ("5 hour effect")
WindowMinutes == 300

\* minutes of the decay of iob_contribution
DecayMinutes == 285

\* entries the IoB loop looks back
LookBack == 60

\* limit of DataFrame.interpolate
InterpLimit == 6

\* the three key lists appended, neither deduplicated nor sorted as a whole
AllKeys_appended(pd, wd, fd) == sorted(DOMAIN pd) \o sorted(DOMAIN wd) \o sorted(DOMAIN fd)

\* sorted(list(set(pump keys + watch keys + food keys)))
AllKeys(pd, wd, fd) == sorted(DOMAIN pd \cup DOMAIN wd \cup DOMAIN fd)

\* the time_to_idx loop: Python's 0-based index of each key
TimeToIdx(ts) == [k \in Range(ts) |-> (CHOOSE i \in 1..Len(ts) : ts[i] = k) - 1]

\* the decay taken over the 300 minutes of the window
iob_contribution_window(curr_dt, bolus_dt, units) ==
    LET secs == TotalSeconds(curr_dt, bolus_dt)
    IN  IF secs < RampMinutes * 60
        THEN RatScale(units, secs, RampMinutes * 60)
        ELSE IF secs < WindowMinutes * 60
        THEN RatScale(units, WindowMinutes * 60 - secs, WindowMinutes * 60)
        ELSE Num(0)

\* the decay floored at zero
iob_contribution_floored(curr_dt, bolus_dt, units) ==
    LET secs == TotalSeconds(curr_dt, bolus_dt)
    IN  IF secs < RampMinutes * 60
        THEN RatScale(units, secs, RampMinutes * 60)
        ELSE IF secs < DecayMinutes * 60
        THEN RatScale(units, DecayMinutes * 60 - secs, DecayMinutes * 60)
        ELSE Num(0)

\* iob_contribution(curr_dt, bolus_dt, units); min_diff is seconds / 60
iob_contribution(curr_dt, bolus_dt, units) ==
    LET secs == TotalSeconds(curr_dt, bolus_dt)
    IN  IF secs < RampMinutes * 60
        THEN RatScale(units, secs, RampMinutes * 60)
        ELSE IF secs < WindowMinutes * 60
        THEN RatScale(units, DecayMinutes * 60 - secs, DecayMinutes * 60)
        ELSE Num(0)

\* one pass of the assembly loop: the record built for key
AssembleElem(key, pd, wd, fd, food_parser) ==
    LET e0 == IF key \in DOMAIN pd THEN pd[key] ELSE EmptyDict
        e1 == IF key \in DOMAIN wd
              THEN Update(e0, [hr |-> wd[key].hr, running |-> wd[key].running,
                               walking |-> wd[key].walking,
                               nordic_skiing |-> wd[key].nordic_skiing])
              ELSE Update(e0, [hr |-> None, running |-> FALSE, walking |-> FALSE,
                               nordic_skiing |-> FALSE])
        e2 == IF food_parser /\ key \in DOMAIN fd THEN Update(e1, fd[key]) ELSE e1
        e3 == Put(e2, "timestamp", key)
        e4 == Put(e3, "bg", Get(e3, "bg", None))
        e5 == Put(e4, "bolus", Get(e4, "bolus", Num(0)))
        e6 == Put(e5, "carbs", Get(e5, "carbs", Num(0)))
        e7 == Put(e6, "food_bolus", Get(e6, "food_bolus", Num(0)))
    IN  Put(e7, "corr_bolus", Get(e7, "corr_bolus", Num(0)))

\* a look-back of one hour of entries
LookBackSlice_hour(pos) ==
    (IF pos - 1 - 12 > 0 THEN pos - 12 ELSE 1)..(pos - 1)

\* sorted_times[max(0, i - 60):i] as positions of the 1-based sequence; pos = i + 1
LookBackSlice(pos) ==
    (IF pos - 1 - LookBack > 0 THEN pos - LookBack ELSE 1)..(pos - 1)

\* the positions of the slice that pass the two tests of the inner loop
Counted(d, sorted_times, pos) ==
    {from \in LookBackSlice(pos) :
        /\ TotalSeconds(sorted_times[pos], sorted_times[from]) <= WindowMinutes * 60
        /\ "bolus" \in DOMAIN d[sorted_times[from]]
        /\ Positive(d[sorted_times[from]].bolus)}

\* the inner loop of the IoB pass: the contributions of the counted positions
\* added to total_iob in ascending order
RECURSIVE SumIoB(_, _, _, _, _)
SumIoB(d, sorted_times, pos, counted, total_iob) ==
    IF counted = {} THEN total_iob
    ELSE LET from == CHOOSE i \in counted : \A j \in counted : i <= j
             prev_time == sorted_times[from]
         IN  SumIoB(d, sorted_times, pos, counted \ {from},
                    RatAdd(total_iob,
                           iob_contribution(sorted_times[pos], prev_time,
                                            d[prev_time].bolus)))

\* total_iob of the entry at position pos
TotalIoB(d, sorted_times, pos) ==
    SumIoB(d, sorted_times, pos, Counted(d, sorted_times, pos), Num(0))

\* the fields whose values are floats (or None)
FloatFields ==
    NutritionFields \cup {"bg", "hr", "iob", "bolus", "food_bolus", "corr_bolus"}

\* pd.DataFrame.from_dict(self.data, orient='index'): one column per field of any
\* record; an absent cell is NaN, None is NaN in a column that holds a number
FromDict(d) ==
    With(UNION {DOMAIN d[k] : k \in DOMAIN d},
         LAMBDA columns :
             With({c \in columns \cap FloatFields :
                      \E k \in DOMAIN d : c \in DOMAIN d[k] /\ ~Missing(d[k][c])},
                  LAMBDA numeric :
                      [k \in DOMAIN d |->
                          [c \in columns |->
                              IF c \notin DOMAIN d[k] THEN NaN
                              ELSE IF c \in numeric /\ d[k][c] = None THEN NaN
                              ELSE d[k][c]]]))

\* an interpolation that also redraws the observed values between two neighbours
InterpolateColumn_smooth(col, limit) ==
    LET n == Len(col)
        valid(i) == ~Missing(col[i])
    IN  [i \in 1..n |->
            IF i > 1 /\ i < n /\ valid(i - 1) /\ valid(i + 1)
            THEN RatScale(RatAdd(col[i - 1], col[i + 1]), 1, 2)
            ELSE col[i]] \o <<>>

\* Series.interpolate(method='linear', limit=limit) on one column: forward in
\* direction, the index ignored; leading NaNs are kept, at most limit NaNs after a
\* valid value are filled, those after the last valid value with that value
InterpolateColumn(col, limit) ==
    LET n == Len(col)
        valid(i) == ~Missing(col[i])
        prev(i) == IF \E j \in 1..(i - 1) : valid(j)
                   THEN CHOOSE j \in 1..(i - 1) :
                            valid(j) /\ \A m \in (j + 1)..(i - 1) : ~valid(m)
                   ELSE 0
        next(i) == IF \E j \in (i + 1)..n : valid(j)
                   THEN CHOOSE j \in (i + 1)..n :
                            valid(j) /\ \A m \in (i + 1)..(j - 1) : ~valid(m)
                   ELSE 0
        fill(i) ==
            LET p == prev(i)
                q == next(i)
            IN  IF p = 0 \/ i - p > limit THEN col[i]
                ELSE IF q = 0 THEN col[p]
                ELSE RatAdd(col[p], RatScale(RatSub(col[q], col[p]), i - p, q - p))
    IN  [i \in 1..n |-> IF valid(i) THEN col[i] ELSE fill(i)] \o <<>>

numeric_columns == {"bg", "hr", "iob"}

\* df[numeric_columns] = df[numeric_columns].interpolate(method='linear', limit=6):
\* the rows of the frame, in the order of sorted_times, with the three columns filled
Interpolated(frame, sorted_times) ==
    With([c \in numeric_columns |->
             InterpolateColumn([i \in 1..Len(sorted_times) |-> frame[sorted_times[i]][c]]
                                   \o <<>>, InterpLimit)] @@ EmptyDict,
         LAMBDA filled :
             [i \in 1..Len(sorted_times) |->
                 [c \in DOMAIN frame[sorted_times[i]] |->
                     IF c \in numeric_columns THEN filled[c][i]
                     ELSE frame[sorted_times[i]][c]]])

\* df.to_dict('index'): the rows, by key
ToDict(rows, sorted_times) ==
    [k \in Range(sorted_times) |->
        rows[CHOOSE i \in 1..Len(sorted_times) : sorted_times[i] = k]]

-----------------------------------------------------------------------------
(* dataset.py: Dataset.save_to_disk *)

\* the keys walked latest first
SaveOrder_descending(d) ==
    With(sorted(DOMAIN d), LAMBDA asc : [i \in 1..Len(asc) |-> asc[Len(asc) + 1 - i]] \o <<>>)

\* the order in which save_to_disk walks self.data
SaveOrder(d) == sorted(DOMAIN d)

\* the record appended for one timestamp
ExportRecord(timestamp, record) ==
    [timestamp |-> isoformat(timestamp),
     bg |-> record["bg"],
     hr |-> record["hr"],
     iob |-> record["iob"],
     bolus |-> record["bolus"],
     carbs |-> record["carbs"],
     food_bolus |-> record["food_bolus"],
     corr_bolus |-> record["corr_bolus"],
     calories |-> Get(record, "calories", Num(0)),
     protein |-> Get(record, "protein", Num(0)),
     fat |-> Get(record, "fat", Num(0)),
     saturated_fat |-> Get(record, "saturated_fat", Num(0)),
     sodium |-> Get(record, "sodium", Num(0)),
     meal_type |-> Get(record, "meal_type", None),
     running |-> Get(record, "running", FALSE),
     walking |-> Get(record, "walking", FALSE),
     nordic_skiing |-> Get(record, "nordic_skiing", FALSE)]

-----------------------------------------------------------------------------
(* The program *)

watch_data == hr_entries

food_data == IF has_food THEN food_entries ELSE EmptyDict

Parsing == {"apple", "food", "pump_bg", "pump_bolus"}

\* the parser loop named loop may read one more raw event
MayRead(loop, earlier) ==
    \/ pc \in earlier
    \/ pc = loop /\ nread < MaxEvents

Count(loop) == IF pc = loop THEN nread + 1 ELSE 1

\* the state the colation starts from
NotColated ==
    /\ times = <<>>
    /\ time_to_idx = EmptyDict
    /\ data = EmptyDict
    /\ df = EmptyDict
    /\ records = <<>>

NotNormalizing ==
    /\ arg = None
    /\ out = None

\* Dataset.__init__ up to the parsers' construction
Init ==
    /\ pc = "apple"
    /\ workouts \in WorkoutFiles
    /\ has_food \in BOOLEAN
    /\ hr_entries = EmptyDict
    /\ food_entries = EmptyDict
    /\ bg_readings = EmptyDict
    /\ bolus_readings = EmptyDict
    /\ pump_data = EmptyDict
    /\ nread = 0
    /\ NotColated
    /\ NotNormalizing

\* AppleHealthParser._parse_data: one heart-rate record
ParseHR ==
    /\ MayRead("apple", {})
    /\ \E rec \in HrRecords : hr_entries' = ParseHrRecord(hr_entries, workouts, rec)
    /\ pc' = "apple"
    /\ nread' = nread + 1
    /\ UNCHANGED <<arg, out, workouts, has_food, food_entries, bg_readings,
                   bolus_readings, pump_data, times, time_to_idx, data, df, records>>

\* FoodParser._parse_data: one row
ParseFood ==
    /\ has_food
    /\ MayRead("food", {"apple"})
    /\ \E row \in FoodRows : food_entries' = ParseFoodRow(food_entries, row)
    /\ pc' = "food"
    /\ nread' = Count("food")
    /\ UNCHANGED <<arg, out, workouts, has_food, hr_entries, bg_readings,
                   bolus_readings, pump_data, times, time_to_idx, data, df, records>>

\* PumpParser.read_bg_data: one cbg entry
ReadBG ==
    /\ MayRead("pump_bg", {"apple", "food"})
    /\ \E entry \in CbgEntries : bg_readings' = ReadBgEntry(bg_readings, entry)
    /\ pc' = "pump_bg"
    /\ nread' = Count("pump_bg")
    /\ UNCHANGED <<arg, out, workouts, has_food, hr_entries, food_entries,
                   bolus_readings, pump_data, times, time_to_idx, data, df, records>>

\* PumpParser.read_bolus_data: one bolus entry
ReadBolus ==
    /\ MayRead("pump_bolus", {"apple", "food", "pump_bg"})
    /\ \E entry \in BolusEntries : bolus_readings' = ReadBolusEntry(bolus_readings, entry)
    /\ pc' = "pump_bolus"
    /\ nread' = Count("pump_bolus")
    /\ UNCHANGED <<arg, out, workouts, has_food, hr_entries, food_entries,
                   bg_readings, pump_data, times, time_to_idx, data, df, records>>

\* the end of read_bolus_data (the basal rates) and of PumpParser.get_all_data
GetPumpData ==
    /\ pc \in Parsing
    /\ \E basal \in BasalFiles :
          /\ bolus_readings' = AddBasalRates(bolus_readings, GetBasalRates(EmptyDict, basal))
          /\ pump_data' = PumpGetAllData(bg_readings, bolus_readings')
    /\ pc' = "pump_read"
    /\ nread' = 0
    /\ UNCHANGED <<arg, out, workouts, has_food, hr_entries, food_entries,
                   bg_readings, times, time_to_idx, data, df, records>>

\* _colate: the union of the keys, self.times and self.time_to_idx
MergeKeys ==
    /\ pc = "pump_read"
    /\ times' = AllKeys(pump_data, watch_data, food_data)
    /\ time_to_idx' = TimeToIdx(times')
    /\ pc' = "merged"
    /\ UNCHANGED <<arg, out, workouts, has_food, hr_entries, food_entries, bg_readings,
                   bolus_readings, nread, pump_data, data, df, records>>

\* _colate: the assembly loop; a pump record is the very dict stored in self.data
Assemble ==
    /\ pc = "merged"
    /\ data' = [key \in Range(times) |->
                   AssembleElem(key, pump_data, watch_data, food_data, has_food)]
    /\ pump_data' = [key \in DOMAIN pump_data |-> data'[key]]
    /\ pc' = "assembled"
    /\ UNCHANGED <<arg, out, workouts, has_food, hr_entries, food_entries, bg_readings,
                   bolus_readings, nread, times, time_to_idx, df, records>>

\* _colate: the IoB loop
ComputeIoB ==
    /\ pc = "assembled"
    /\ \E sorted_times \in {sorted(Range(times))} :
          data' = [key \in DOMAIN data |->
                      Put(data[key], "iob",
                          TotalIoB(data, sorted_times,
                                   CHOOSE i \in 1..Len(sorted_times) :
                                       sorted_times[i] = key))]
    /\ pump_data' = [key \in DOMAIN pump_data |-> data'[key]]
    /\ pc' = "iob"
    /\ UNCHANGED <<arg, out, workouts, has_food, hr_entries, food_entries, bg_readings,
                   bolus_readings, nread, times, time_to_idx, df, records>>

\* _colate: the DataFrame, its interpolation and the conversion back
Interpolate ==
    /\ pc = "iob"
    /\ \E index \in {sorted(DOMAIN data)} :
          /\ df' = FromDict(data)
          /\ data' = ToDict(Interpolated(df', index), index)
    /\ pc' = "colated"
    /\ UNCHANGED <<arg, out, workouts, has_food, hr_entries, food_entries, bg_readings,
                   bolus_readings, nread, pump_data, times, time_to_idx, records>>

\* Dataset.save_to_disk
SaveToDisk ==
    /\ pc = "colated"
    /\ \E order \in {SaveOrder(data)} :
          records' = [i \in 1..Len(order) |-> ExportRecord(order[i], data[order[i]])]
    /\ pc' = "saved"
    /\ UNCHANGED <<arg, out, workouts, has_food, hr_entries, food_entries, bg_readings,
                   bolus_readings, nread, pump_data, times, time_to_idx, data, df>>

Colate ==
    \/ MergeKeys
    \/ Assemble
    \/ ComputeIoB
    \/ Interpolate
    \/ SaveToDisk

Next ==
    \/ ParseHR
    \/ ParseFood
    \/ ReadBG
    \/ ReadBolus
    \/ GetPumpData
    \/ Colate

Spec == Init /\ [][Next]_vars

-----------------------------------------------------------------------------
(* The normalizer on its own: round applied to one timestamp *)

Timestamps ==
    {DT(1, h, m, s, us, tz) :
        h \in {9, 23}, m \in 0..59, s \in {0, 30, 59}, us \in {0, 250000},
        tz \in {"naive", "+00:00"}}

NotParsed ==
    /\ workouts = <<>>
    /\ has_food = FALSE
    /\ hr_entries = EmptyDict
    /\ food_entries = EmptyDict
    /\ bg_readings = EmptyDict
    /\ bolus_readings = EmptyDict
    /\ pump_data = EmptyDict
    /\ nread = 0

InitRound ==
    /\ pc = "normalize"
    /\ arg \in Timestamps
    /\ out = None
    /\ NotParsed
    /\ NotColated

\* parsers/utils.py: round(arg)
Normalize ==
    /\ pc = "normalize"
    /\ out' = round(arg)
    /\ pc' = "normalized"
    /\ UNCHANGED <<arg, workouts, has_food, hr_entries, food_entries, bg_readings,
                   bolus_readings, nread, pump_data, times, time_to_idx, data, df,
                   records>>

\* utils.py: round(arg)
NormalizeLegacy ==
    /\ pc = "normalize"
    /\ out' = round_legacy(arg)
    /\ pc' = "normalized_legacy"
    /\ UNCHANGED <<arg, workouts, has_food, hr_entries, food_entries, bg_readings,
                   bolus_readings, nread, pump_data, times, time_to_idx, data, df,
                   records>>

\* parsers/utils.py: round applied to a key round returned
NormalizeAgain ==
    /\ pc = "normalized"
    /\ arg' = out
    /\ out' = round(out)
    /\ pc' = "renormalized"
    /\ UNCHANGED <<workouts, has_food, hr_entries, food_entries, bg_readings,
                   bolus_readings, nread, pump_data, times, time_to_idx, data, df,
                   records>>

NextRound ==
    \/ Normalize
    \/ NormalizeLegacy
    \/ NormalizeAgain

SpecRound == InitRound /\ [][NextRound]_vars

-----------------------------------------------------------------------------
(* The colation on long timelines: a glucose reading at every key, a dense  *)
(* run of keys with one gap, a bolus at the first key and one after the gap *)

\* keys of the timeline
MaxRun == 62

\* the key at position i of a timeline with g empty slots after position p
KeyAt(i, p, g) == At(5 * (IF i <= p THEN i - 1 ELSE i - 1 + g))

BolusRecord(units) ==
    [bolus |-> Num(units), bg |-> Num(0), carbs |-> Num(0),
     food_bolus |-> Num(units), corr_bolus |-> Num(0)]

InitIoB ==
    /\ pc = "pump_read"
    /\ \E p \in 1..(MaxRun - 1), g \in {0, 1, 2, 56, 60}, second \in {0, 3} :
          /\ bg_readings = [k \in {KeyAt(i, p, g) : i \in 1..MaxRun} |-> Num(100)]
          /\ bolus_readings =
                [k \in {KeyAt(1, p, g)} \cup
                       (IF second > 0 THEN {KeyAt(p + 1, p, g)} ELSE {}) |->
                    IF k = KeyAt(1, p, g) THEN BolusRecord(10) ELSE BolusRecord(second)]
    /\ pump_data = PumpGetAllData(bg_readings, bolus_readings)
    /\ workouts = <<>>
    /\ has_food = FALSE
    /\ hr_entries = EmptyDict
    /\ food_entries = EmptyDict
    /\ nread = 0
    /\ NotColated
    /\ NotNormalizing

SpecIoB == InitIoB /\ [][Colate]_vars

-----------------------------------------------------------------------------
(* The colation on short dense timelines with every pattern of missing      *)
(* glucose readings: a basal record at every key, heart rate in the mirror  *)
(* pattern                                                                  *)

\* keys of the timeline
MaxLen == 9

BasalRecord ==
    [bolus |-> <<1, 20>>, bg |-> None, carbs |-> Num(0), food_bolus |-> Num(0),
     corr_bolus |-> Num(0)]

InitInterp ==
    /\ pc = "pump_read"
    /\ \E P \in SUBSET (1..MaxLen) :
          /\ bg_readings = [k \in {At(5 * i) : i \in P} |->
                               LET i == CHOOSE j \in P : At(5 * j) = k
                               IN  Num(100 + i * i)]
          /\ hr_entries = [k \in {At(5 * (MaxLen + 1 - i)) : i \in P} |->
                              LET i == CHOOSE j \in 1..MaxLen : At(5 * j) = k
                              IN  [hr |-> Num(60 + i * i * i), running |-> FALSE,
                                   walking |-> FALSE, nordic_skiing |-> FALSE]]
    /\ bolus_readings = [k \in {At(5 * i) : i \in 1..MaxLen} |-> BasalRecord]
    /\ pump_data = PumpGetAllData(bg_readings, bolus_readings)
    /\ workouts = <<>>
    /\ has_food = FALSE
    /\ food_entries = EmptyDict
    /\ nread = 0
    /\ NotColated
    /\ NotNormalizing

SpecInterp == InitInterp /\ [][Colate]_vars

-----------------------------------------------------------------------------
(* The colation on the mappings of arbitrary adapters: Dataset takes any     *)
(* object with get_all_data, and PumpParser stores float(entry['normal'])    *)
(* whatever its sign                                                         *)

\* the keys an adapter may return: two on the grid, one with a minute off the grid,
\* one with seconds
RawKeys ==
    {At(540), At(545), DT(1, 9, 7, 0, 0, "naive"), DT(1, 9, 10, 30, 0, "naive")}

\* the amounts of a bolus: a dose, a basal share, a negative amount, nan
RawAmounts == {Num(5), <<1, 20>>, Num(-3), NaN}

RawBolusRecord(amount) ==
    [bolus |-> amount, bg |-> None, carbs |-> Num(0), food_bolus |-> Num(0),
     corr_bolus |-> Num(0)]

InitRaw ==
    /\ pc = "pump_read"
    /\ \E S \in (SUBSET RawKeys) \ {{}} :
          \E amount \in [S -> RawAmounts] :
              bolus_readings = [k \in S |-> RawBolusRecord(amount[k])]
    /\ bg_readings = EmptyDict
    /\ pump_data = PumpGetAllData(bg_readings, bolus_readings)
    /\ workouts = <<>>
    /\ has_food = FALSE
    /\ hr_entries \in
          {EmptyDict,
           [k \in {DT(1, 9, 12, 0, 0, "naive")} |->
               [hr |-> Num(70), running |-> FALSE, walking |-> FALSE,
                nordic_skiing |-> FALSE]]}
    /\ food_entries = EmptyDict
    /\ nread = 0
    /\ NotColated
    /\ NotNormalizing

SpecRaw == InitRaw /\ [][Colate]_vars

-----------------------------------------------------------------------------
(* Properties: the IoB engine *)

AfterAssembly == pc \in {"assembled", "iob", "colated", "saved"}

AfterIoB == pc \in {"iob", "colated", "saved"}

AfterColate == pc \in {"colated", "saved"}

\* elapsed minutes from key b to key t
Elapsed(t, b) == TotalSeconds(t, b) \div 60

\* x in thousandths, rounded half up
Milli(x) == (x[1] * 2000 + x[2]) \div (2 * x[2])

\* the contribution the specification gives a bolus of amount A after D minutes
StatedContribution(A, D) ==
    IF D < 15 THEN RatScale(A, D, 15)
    ELSE IF D < 300 THEN RatScale(A, 285 - D, 285)
    ELSE Num(0)

Boluses == {b \in DOMAIN data : Positive(data[b].bolus)}

\* C1: the contribution of a bolus of amount A at key b to a later key t, D minutes
\* after b, is A*(D/15) when D < 15, A*(285-D)/285 when 15 <= D < 300 and 0 when
\* D >= 300 (for A = 10: 6.667 at D = 10, 9.298 at D = 20, 0 at D = 310); where b is
\* the only bolus before t, that contribution is the iob stored at t.
C1_Contribution ==
    AfterIoB =>
        \A b \in Boluses : \A t \in DOMAIN data :
            DtLess(b, t) =>
                LET A == data[b].bolus
                    D == Elapsed(t, b)
                    c == iob_contribution(t, b, A)
                IN  /\ c = StatedContribution(A, D)
                    /\ A = Num(10) /\ D = 10 => Milli(c) = 6667
                    /\ A = Num(10) /\ D = 20 => Milli(c) = 9298
                    /\ A = Num(10) /\ D = 310 => Milli(c) = 0
                    /\ {x \in Boluses : DtLess(x, t)} = {b} => data[t].iob = c

C1_Witness ==
    /\ pc = "iob"
    /\ \E b \in Boluses :
          /\ data[b].bolus = Num(10)
          /\ \A D \in {10, 20, 310} :
                \E t \in DOMAIN data :
                    /\ {x \in Boluses : DtLess(x, t)} = {b}
                    /\ Elapsed(t, b) = D
                    /\ data[t].iob = StatedContribution(Num(10), D)

RECURSIVE SumStated(_, _)
SumStated(bs, t) ==
    IF bs = {} THEN Num(0)
    ELSE LET b == CHOOSE x \in bs : TRUE
         IN  RatAdd(StatedContribution(data[b].bolus, Elapsed(t, b)),
                    SumStated(bs \ {b}, t))

\* C2: whatever the spacing of the grid-aligned keys, the iob stored at key t is the
\* sum of the contributions of every key b strictly before t whose bolus is > 0 and
\* whose elapsed time to t is under 300 minutes: the 60-entry slice drops no bolus
\* inside the window and admits none outside it.
C2_IoBIsWindowSum ==
    AfterIoB =>
        \A t \in DOMAIN data :
            data[t].iob =
                SumStated({b \in Boluses : DtLess(b, t) /\ Elapsed(t, b) < 300}, t)

\* a timeline longer than the slice, with a key that has a bolus inside its slice
\* but outside the window and another inside the window
C2_Witness ==
    /\ pc = "iob"
    /\ Len(times) > LookBack + 1
    /\ \E i \in 1..Len(times) :
          /\ \E j \in LookBackSlice(i) :
                times[j] \in Boluses /\ Elapsed(times[i], times[j]) > 300
          /\ \E j \in LookBackSlice(i) :
                times[j] \in Boluses /\ Elapsed(times[i], times[j]) < 300
          /\ Positive(data[times[i]].iob)

-----------------------------------------------------------------------------
(* Properties: the gap interpolator *)

\* the column c of a frame, in timeline order
ColumnOf(frame, c) == [i \in 1..Len(times) |-> frame[times[i]][c]]

\* i..j is a maximal run of missing values of col
IsMissingRun(col, i, j) ==
    /\ 1 <= i /\ i <= j /\ j <= Len(col)
    /\ \A k \in i..j : Missing(col[k])
    /\ i = 1 \/ ~Missing(col[i - 1])
    /\ j = Len(col) \/ ~Missing(col[j + 1])

\* the point at position k of the line through (p, a) and (q, b)
Linear(a, b, p, q, k) == RatAdd(a, RatScale(RatSub(b, a), k - p, q - p))

\* the runs of exactly len missing values bounded on both sides are filled linearly
RunsFilled(len) ==
    pc = "colated" =>
        \A c \in numeric_columns :
            LET before == ColumnOf(df, c)
                after == ColumnOf(data, c)
            IN  \A i \in 2..Len(times) : \A j \in i..(Len(times) - 1) :
                    IsMissingRun(before, i, j) /\ j - i + 1 = len =>
                        \A k \in i..j :
                            after[k] = Linear(before[i - 1], before[j + 1], i - 1, j + 1, k)

\* the runs of more than 6 missing values are left entirely missing
LongRunsKept ==
    pc = "colated" =>
        \A c \in numeric_columns :
            LET before == ColumnOf(df, c)
                after == ColumnOf(data, c)
            IN  \A i \in 2..Len(times) : \A j \in i..(Len(times) - 1) :
                    IsMissingRun(before, i, j) /\ j - i + 1 >= 7 =>
                        \A k \in i..j : Missing(after[k])

\* C3: in the interpolation pass over bg, hr and iob, a run of exactly 6 consecutive
\* missing values with a non-missing value on both sides is filled completely by
\* linear interpolation, and a run of 7 or more is left entirely missing.
C3_InterpolationBound == RunsFilled(6) /\ LongRunsKept

\* a missing value of a leading run is still missing after the pass
LeadingKept ==
    pc = "colated" =>
        \A c \in numeric_columns :
            LET before == ColumnOf(df, c)
                after == ColumnOf(data, c)
            IN  \A k \in 1..Len(times) :
                    (\A m \in 1..k : Missing(before[m])) => Missing(after[k])

\* a missing value of a trailing run is still missing after the pass
TrailingKept ==
    pc = "colated" =>
        \A c \in numeric_columns :
            LET before == ColumnOf(df, c)
                after == ColumnOf(data, c)
            IN  \A k \in 1..Len(times) :
                    (\A m \in k..Len(times) : Missing(before[m])) => Missing(after[k])

\* C4: the interpolation pass never extrapolates: a missing bg/hr/iob value in a
\* leading run or in a trailing run is still missing after the pass, whatever the
\* length of the run.
C4_NoExtrapolation == LeadingKept /\ TrailingKept

\* the cell of field f holds no observation
NoValue(record, f) ==
    \/ f \notin DOMAIN record
    \/ f \in FloatFields /\ Missing(record[f])

\* C5: the interpolation pass writes only into cells of bg, hr and iob that were
\* missing before it: every value that was non-missing before the pass, in any
\* field of any record, is equal to itself after the pass.
C5_Preservation ==
    [][pc = "iob" /\ pc' = "colated" =>
          /\ DOMAIN data' = DOMAIN data
          /\ \A k \in DOMAIN data : \A f \in DOMAIN data[k] :
                ~NoValue(data[k], f) =>
                    f \in DOMAIN data'[k] /\ data'[k][f] = data[k][f]
          /\ \A k \in DOMAIN data : \A f \in DOMAIN data'[k] :
                NoValue(data[k], f) /\ ~NoValue(data'[k], f) => f \in numeric_columns]_vars

\* a pass that filled a missing reading between two observed readings
C5_Witness ==
    /\ pc = "colated"
    /\ \E i \in 2..(Len(times) - 1) :
          /\ Missing(df[times[i]]["bg"])
          /\ ~Missing(data[times[i]]["bg"])
          /\ ~Missing(df[times[i - 1]]["bg"])
          /\ data[times[i - 1]]["bg"] = df[times[i - 1]]["bg"]

\* the runs of at most 6 missing values bounded on both sides are filled linearly
ShortRunsFilled == \A len \in 1..InterpLimit : RunsFilled(len)

-----------------------------------------------------------------------------
(* Properties: the key-space merger, the record assembler and the export *)

\* the pump mapping as the adapter returned it, before the assembly wrote into it
PumpReturned == PumpGetAllData(bg_readings, bolus_readings)

SourceKeys == DOMAIN PumpReturned \cup DOMAIN watch_data \cup DOMAIN food_data

\* C6: after _colate the Timeline is exactly the set union of the keys of the pump,
\* wearable and nutrition mappings, with no duplicate and in strictly ascending
\* order; time_to_idx maps every key k to the index i with times[i] = k; the keys
\* of self.data are that same union.
C6_TimelineIsUnion ==
    /\ pc \in {"merged", "assembled", "iob", "colated", "saved"} =>
          /\ Range(times) = SourceKeys
          /\ \A i \in 1..(Len(times) - 1) : DtLess(times[i], times[i + 1])
          /\ DOMAIN time_to_idx = SourceKeys
          /\ \A k \in SourceKeys : times[time_to_idx[k] + 1] = k
    /\ AfterAssembly => DOMAIN data = SourceKeys

\* three sources with a key in common and a key of their own
C6_Witness ==
    /\ pc = "colated"
    /\ Len(times) >= 3
    /\ DOMAIN PumpReturned \cap DOMAIN watch_data \cap DOMAIN food_data # {}
    /\ DOMAIN PumpReturned \ (DOMAIN watch_data \cup DOMAIN food_data) # {}
    /\ DOMAIN food_data \ DOMAIN PumpReturned # {}

ActivityFields == {"running", "walking", "nordic_skiing"}

\* the fields of the default table
TableFields ==
    {"bg", "hr", "meal_type", "bolus", "carbs", "food_bolus", "corr_bolus", "calories",
     "protein", "fat", "saturated_fat", "sodium"} \cup ActivityFields

\* v is the default the table gives field f: null, 0.0 or false
IsDefault(f, v) ==
    IF f \in {"bg", "hr", "meal_type"} THEN Missing(v)
    ELSE IF f \in ActivityFields THEN v = FALSE
    ELSE v = Num(0)

\* v is a real value of field f: neither null nor the default
IsReal(f, v) ==
    IF f \in ActivityFields THEN v = TRUE
    ELSE ~Missing(v) /\ v # Num(0)

\* C7: when pump, then wearable, then nutrition data are layered for one key, a
\* field that holds a real value from an earlier source is never replaced by a later
\* source's default or null (a pump record with carbs = 30 and a nutrition record
\* whose carbs is its initial 0.0 leave carbs = 30).
C7_RealValueKept ==
    pc = "assembled" =>
        \A k \in DOMAIN PumpReturned :
            /\ k \in DOMAIN watch_data =>
                  \A f \in DOMAIN PumpReturned[k] \cap DOMAIN watch_data[k] :
                      IsReal(f, PumpReturned[k][f]) /\ IsDefault(f, watch_data[k][f])
                          => data[k][f] = PumpReturned[k][f]
            /\ k \in DOMAIN food_data =>
                  \A f \in DOMAIN PumpReturned[k] \cap DOMAIN food_data[k] :
                      IsReal(f, PumpReturned[k][f]) /\ IsDefault(f, food_data[k][f])
                          => data[k][f] = PumpReturned[k][f]

\* the sources that hold key k
SourcesOf(k) ==
    {src \in {"pump", "watch", "food"} :
        k \in DOMAIN (CASE src = "pump" -> PumpReturned
                        [] src = "watch" -> watch_data
                        [] OTHER -> food_data)}

\* the record the only source of key k holds for it
OnlyRecord(k) ==
    IF k \in DOMAIN PumpReturned THEN PumpReturned[k]
    ELSE IF k \in DOMAIN watch_data THEN watch_data[k]
    ELSE food_data[k]

\* the fields the gap interpolator may fill later
Interpolable(f) == f \in numeric_columns /\ AfterColate

\* every field the only source of a key does not hold reads as the table's default
DefaultsFilled ==
    AfterAssembly =>
        \A k \in DOMAIN data :
            Cardinality(SourcesOf(k)) = 1 =>
                \A f \in TableFields \ DOMAIN OnlyRecord(k) :
                    ~Interpolable(f) =>
                        \/ f \notin DOMAIN data[k]
                        \/ IsDefault(f, data[k][f])

\* every field the only source of a key holds is in the composite record
SourceFieldsHeld ==
    AfterAssembly =>
        \A k \in DOMAIN data :
            Cardinality(SourcesOf(k)) = 1 =>
                \A f \in DOMAIN OnlyRecord(k) :
                    ~Interpolable(f) /\ ~NoValue(OnlyRecord(k), f) =>
                        f \in DOMAIN data[k] /\ data[k][f] = OnlyRecord(k)[f]

\* C8: for a key present in only one source the composite record holds that
\* source's fields and, for every field of the other sources, the default of the
\* table: bg, hr and meal_type null; bolus, carbs, food_bolus, corr_bolus, calories,
\* protein, fat, saturated_fat and sodium 0.0; the activity flags false.
C8_DefaultFill == SourceFieldsHeld /\ DefaultsFilled

\* the scenario of the specification: A = {09:00: bolus 5}, B = {09:05: hr 70}
ScenarioAB ==
    (/\ AfterAssembly
     /\ ~AfterColate
     /\ At(540) \in DOMAIN data
     /\ At(545) \in DOMAIN data
     /\ SourcesOf(At(540)) = {"pump"}
     /\ SourcesOf(At(545)) = {"watch"}
     /\ "bolus" \in DOMAIN PumpReturned[At(540)]
     /\ PumpReturned[At(540)].bolus = Num(5)
     /\ watch_data[At(545)].hr = Num(70))
        => /\ data[At(540)].bolus = Num(5)
           /\ Missing(data[At(540)].hr)
           /\ data[At(545)].bolus = Num(0)
           /\ data[At(545)].hr = Num(70)

ExportedAsIs == {"bg", "hr", "iob", "bolus", "carbs", "food_bolus", "corr_bolus"}

ExportedWithDefault ==
    {"calories", "protein", "fat", "saturated_fat", "sodium", "meal_type"}
        \cup ActivityFields

\* C9: save_to_disk emits exactly one record per Timeline key, in the order of the
\* Timeline (strictly ascending): the i-th record carries the timestamp and the
\* field values of the composite record of the i-th key, and no key appears twice.
C9_ExportOrder ==
    pc = "saved" =>
        /\ Len(records) = Len(times)
        /\ \A i \in 1..Len(records) :
              /\ records[i].timestamp = isoformat(times[i])
              /\ \A f \in ExportedAsIs : records[i][f] = data[times[i]][f]
              /\ \A f \in ExportedWithDefault \cap DOMAIN data[times[i]] :
                    records[i][f] = data[times[i]][f]
        /\ \A i \in 1..Len(records) : \A j \in 1..Len(records) :
              i < j => /\ records[i].timestamp # records[j].timestamp
                       /\ DtLess(times[i], times[j])

C9_Witness ==
    /\ pc = "saved"
    /\ Len(records) >= 3
    /\ \E i \in 1..Len(records) : records[i].calories # Num(0)

-----------------------------------------------------------------------------
(* Properties: the timestamp normalizer *)

\* the largest multiple of 5 not above m
Floor5(m) == CHOOSE x \in 0..59 : x % 5 = 0 /\ x <= m /\ m < x + 5

\* parsers/utils.py: the result has the date and hour of the input, the minute
\* truncated to a multiple of 5, and no seconds or sub-seconds
RoundTruncates ==
    pc = "normalized" =>
        /\ out.day = arg.day /\ out.hour = arg.hour
        /\ out.minute = Floor5(arg.minute)
        /\ out.second = 0 /\ out.microsecond = 0
        /\ ~DtLess(StripTz(arg), StripTz(out))
        /\ TotalSeconds(arg, out) < 5 * 60

\* utils.py: the same of the timestamp the returned string spells
LegacyRoundTruncates ==
    pc = "normalized_legacy" =>
        /\ out.date = arg.day
        /\ out.time = <<arg.hour, Floor5(arg.minute), 0>>
        /\ out.frac = <<>>

\* C10: for every input timestamp, round returns a timestamp with the same date and
\* hour, whose minute is the largest multiple of 5 not above the input minute and
\* whose seconds and sub-seconds are 0; the result is at or before the input and
\* less than 5 minutes before it.
C10_RoundTruncates == RoundTruncates /\ LegacyRoundTruncates

\* every key a parser emitted is on the grid: minute mod 5 = 0, seconds = 0
ParsedKeysOnGrid ==
    \A k \in DOMAIN hr_entries \cup DOMAIN food_entries \cup DOMAIN bg_readings
                \cup DOMAIN bolus_readings :
        k.minute % 5 = 0 /\ k.second = 0 /\ k.microsecond = 0

\* dt is on a 5-minute boundary
OnGrid(dt) == dt.minute % 5 = 0 /\ dt.second = 0 /\ dt.microsecond = 0

C12_ResultNaive ==
    /\ pc \in {"normalized", "renormalized"} => out.tzinfo = "naive"
    /\ pc = "normalized_legacy" => out.offset = <<>>

\* the result of parsers/utils.py round alone is naive
RoundResultNaive == pc \in {"normalized", "renormalized"} => out.tzinfo = "naive"

\* every key a parser emitted is naive
ParsedKeysNaive ==
    \A k \in DOMAIN hr_entries \cup DOMAIN food_entries \cup DOMAIN bg_readings
                \cup DOMAIN bolus_readings :
        k.tzinfo = "naive"

-----------------------------------------------------------------------------
(* Properties: several raw events in one bucket *)

\* the records one raw event alone yields, read into an empty mapping
BgAlone == UNION {Values(ReadBgEntry(EmptyDict, e)) : e \in CbgEntries}

BolusAlone == UNION {Values(ReadBolusEntry(EmptyDict, e)) : e \in BolusEntries}

HrAlone == UNION {Values(ParseHrRecord(EmptyDict, workouts, rec)) : rec \in HrRecords}

FoodAlone == UNION {Values(ParseFoodRow(EmptyDict, row)) : row \in FoodRows}

\* a bucket that held a record holds, after the step, a different record that is
\* the one a single raw event yields: the events before it left no trace
Overwritten(old, new, alone) ==
    \E k \in DOMAIN old : new[k] # old[k] /\ new[k] \in alone

\* the nutrition rows of one bucket are summed
FoodAggregated ==
    [][pc' = "food" => ~Overwritten(food_entries, food_entries', FoodAlone)]_vars

\* C13: when several raw events of one source fall into the same 5-minute bucket,
\* the source's record for that key aggregates all of them and none is silently
\* overwritten: the stored record never is that of the last event only.
C13_EventsAggregated ==
    [][/\ pc' = "pump_bg" => ~Overwritten(bg_readings, bg_readings', BgAlone)
       /\ pc' = "pump_bolus" => ~Overwritten(bolus_readings, bolus_readings', BolusAlone)
       /\ pc' = "apple" => ~Overwritten(hr_entries, hr_entries', HrAlone)
       /\ pc' = "food" => ~Overwritten(food_entries, food_entries', FoodAlone)]_vars

\* the same for one source at a time
BgAggregated ==
    [][pc' = "pump_bg" => ~Overwritten(bg_readings, bg_readings', BgAlone)]_vars

BolusAggregated ==
    [][pc' = "pump_bolus" => ~Overwritten(bolus_readings, bolus_readings', BolusAlone)]_vars

HrAggregated ==
    [][pc' = "apple" => ~Overwritten(hr_entries, hr_entries', HrAlone)]_vars

-----------------------------------------------------------------------------
(* Properties: rejected inputs *)

\* a bolus amount that is negative or not finite
BadAmount(x) == x = NaN \/ x[1] < 0

BadBolusPresent == \E k \in DOMAIN PumpReturned : BadAmount(PumpReturned[k].bolus)

\* C14: if any record on the Timeline has a bolus amount that is negative or
\* non-finite, the IoB pass fails and the run is aborted: the colation never gets
\* past the IoB pass and no iob value is produced for any key.
C14_BadBolusAborts ==
    BadBolusPresent =>
        /\ ~AfterIoB
        /\ \A k \in DOMAIN data : "iob" \notin DOMAIN data[k]

OffGridKeyPresent == \E k \in SourceKeys : ~OnGrid(k)

\* the bad amount is left out of every sum: each stored iob is the sum over the
\* positive amounts, as if the bad record held no bolus
BadBolusSkipped ==
    pc = "iob" /\ ~OffGridKeyPresent =>
        \A t \in DOMAIN data :
            data[t].iob =
                SumStated({b \in Boluses : DtLess(b, t) /\ Elapsed(t, b) < 300}, t)

-----------------------------------------------------------------------------
(* Properties: the source mappings *)

\* C16: the source mappings are not mutated by the merge: after _colate every
\* record of the pump, wearable and nutrition mappings has exactly the fields and
\* values it had before _colate ran.
C16_SourcesNotMutated ==
    [][pc' \in {"merged", "assembled", "iob", "colated", "saved"} =>
          /\ pump_data' = pump_data
          /\ hr_entries' = hr_entries
          /\ food_entries' = food_entries]_vars

\* the wearable and nutrition mappings alone are left as they were
OtherSourcesNotMutated ==
    [][pc' \in {"merged", "assembled", "iob", "colated", "saved"} =>
          /\ hr_entries' = hr_entries
          /\ food_entries' = food_entries]_vars

\* the pump record of a key is the composite record until the DataFrame is built
PumpRecordIsComposite ==
    pc \in {"assembled", "iob"} => \A k \in DOMAIN pump_data : pump_data[k] = data[k]

-----------------------------------------------------------------------------
(* Properties: the sign of the IoB *)

\* x < y and x <= y on rationals with positive denominators
RatLess(x, y) == x[1] * y[2] < y[1] * x[2]

RatLeq(x, y) == x[1] * y[2] <= y[1] * x[2]

AmountsNonNegative == \A k \in DOMAIN data : data[k].bolus[1] >= 0

\* the boluses inside the window of key t
InWindow(t) == {b \in Boluses : DtLess(b, t) /\ Elapsed(t, b) < WindowMinutes}

\* those of them past the end of the decay
PastDecay(t) == {b \in InWindow(t) : Elapsed(t, b) > DecayMinutes}

\* the original statement of C17: when every bolus amount is non-negative, the
\* contribution of each bolus at every elapsed time is between 0 and its amount,
\* and the iob stored at every key is non-negative.
C17_IoBNonNegative ==
    AfterIoB /\ AmountsNonNegative =>
        \A t \in DOMAIN data :
            /\ RatLeq(Num(0), data[t].iob)
            /\ \A b \in InWindow(t) :
                  /\ RatLeq(Num(0), iob_contribution(t, b, data[b].bolus))
                  /\ RatLeq(iob_contribution(t, b, data[b].bolus), data[b].bolus)

\* C17 as amended: when every bolus amount is non-negative, the contribution of a
\* bolus of amount A is at most A; it is at least 0 up to 285 minutes and, between
\* 285 and 300 minutes, negative and above -A * 15 / 285. The iob stored at a key is
\* non-negative when no bolus lies between 285 and 300 minutes before it, and
\* negative when every bolus of its window does.
C17_ContributionBounds ==
    AfterIoB /\ AmountsNonNegative =>
        \A t \in DOMAIN data :
            /\ \A b \in InWindow(t) :
                  LET A == data[b].bolus
                      c == iob_contribution(t, b, A)
                  IN  /\ RatLeq(c, A)
                      /\ Elapsed(t, b) <= DecayMinutes => RatLeq(Num(0), c)
                      /\ Elapsed(t, b) > DecayMinutes =>
                             /\ RatLess(c, Num(0))
                             /\ RatLess(RatScale(A, -RampMinutes, DecayMinutes), c)
            /\ PastDecay(t) = {} => RatLeq(Num(0), data[t].iob)
            /\ PastDecay(t) # {} /\ PastDecay(t) = InWindow(t) =>
                  RatLess(data[t].iob, Num(0))

\* a key 290 minutes after the only bolus of its window holds a negative iob
C17_Witness ==
    /\ AfterIoB
    /\ AmountsNonNegative
    /\ \E t \in DOMAIN data :
          /\ \E b \in InWindow(t) : Elapsed(t, b) = 290
          /\ PastDecay(t) = InWindow(t)
          /\ RatLess(data[t].iob, Num(0))

====
